---- MODULE Spec2Model ----
(***************************************************************************)
(* A model of the in-process background task queue of the Dash chat app    *)
(* (app_lakebase/app/services/task_queue.py): the StreamingBuffer, the     *)
(* SaveStatus registry, the generation registry, the jobs the thread pool  *)
(* runs and the polling calls of the UI thread.                            *)
(*                                                                         *)
(* Every `with lock:` block of the source is one atomic action.  A job is  *)
(* one process whose position (pc) moves through the statements of its     *)
(* _run closure; statements that touch no shared state are merged into the *)
(* next one that does.  Python objects are identified by the index of the  *)
(* submission that created them: SaveStatus j is saveJobs[j], and          *)
(* StreamingBuffer j is genJobs[j].                                         *)
(***************************************************************************)
EXTENDS Integers, Sequences, FiniteSets

VARIABLES
    saveJobs,      \* the save jobs handed to the pool, with their SaveStatus
    saves,         \* _saves: key -> SaveStatus (index into saveJobs, 0 = no entry)
    ret,           \* the most recent public call and the value it returned
    consumed,      \* history: a pop returned a terminal status for the key
                   \* since the last accepted submit_save of that key
    delivered,     \* history: the SaveStatus objects some pop has returned
    genJobs,       \* the generation jobs handed to the pool, with their buffers
    generations,   \* _generations: key -> StreamingBuffer (index into genJobs)
    buffer,        \* one StreamingBuffer driven directly through its methods
    appended,      \* history: the non-empty fragments handed to buffer.append
    read,          \* the cursor and the text of the last read of buffer
    histJobs,      \* the history-load jobs handed to the pool, with their results
    history,       \* _history_results: key -> list (index into histJobs, 0 = no entry)
    assistant_message, \* the assistant message with id MsgId in the chat-store
    tickpc,        \* position of the tick callback: "idle" or "saves"
    trim,          \* the last call of a trim function: its arguments and its result
    registry_lock, \* _registry_lock: the thread holding it, or Free
    buffer_lock,   \* StreamingBuffer._lock of the registered buffer: holder or Free
    thread         \* per thread: the lock steps left in its current call or job

vars == <<saveJobs, saves, ret, consumed, delivered, genJobs, generations,
          buffer, appended, read, histJobs, history, assistant_message, tickpc,
          trim, registry_lock, buffer_lock, thread>>
saveVars == <<saveJobs, saves, consumed, delivered>>
genVars == <<genJobs, generations>>
bufVars == <<buffer, appended, read>>
histVars == <<histJobs, history>>
uiVars == <<assistant_message, tickpc>>
trimVars == <<trim>>
lockVars == <<registry_lock, buffer_lock, thread>>

----------------------------------------------------------------------------
(* Bounds, the pool size and the sets the inputs are drawn from *)

MaxSaveSubmits == 3
MaxGenSubmits == 2
MaxAppends == 3
MaxHistSubmits == 2
MaxRegJobs == 2
MaxPoolJobs == 9
MaxWorkers == 8

Keys == {"k1", "k2"}

\* Optional[T]: None is the empty tuple, a value x is <<x>>.
None == <<>>
Some(x) == <<x>>

\* str(exception) of the exceptions a callable may raise; "" is str(ValueError()).
Errors == {"", "boom"}

\* A text is a sequence of characters.
Empty == <<>>
Texts == {Empty, <<"a">>, <<"a", " ", "b">>}

\* The lists a history load returns: [] and [{"id": 1}].
Lists == {<<>>, <<1>>}

\* The chunks a stream yields, in order, until it stops or raises: "Hel", "",
\* "lo" (a stream may yield empty chunks).
StreamScript == << <<"H", "e", "l">>, Empty, <<"l", "o">> >>

\* "".join(chunks)
RECURSIVE Join(_)
Join(chunks) ==
    IF chunks = <<>> THEN Empty ELSE Head(chunks) \o Join(Tail(chunks))

\* text.split(" "), cur being the word read so far
RECURSIVE SplitFrom(_, _)
SplitFrom(text, cur) ==
    IF text = <<>> THEN <<cur>>
    ELSE IF Head(text) = " " THEN <<cur>> \o SplitFrom(Tail(text), Empty)
    ELSE SplitFrom(Tail(text), Append(cur, Head(text)))
Split(text) == SplitFrom(text, Empty)

----------------------------------------------------------------------------
(* StreamingBuffer.  A Python value handed to append is None or Some(text). *)

NewBuffer ==
    [chunks |-> <<>>, done |-> FALSE, error |-> None, typing_stage |-> "thinking"]

\* append(text_chunk): a falsy chunk (None, "") is dropped
BufAppend_Prepend(b, v) ==
    IF v = None \/ v[1] = Empty THEN b
    ELSE [b EXCEPT !.chunks = <<v[1]>> \o @]
BufAppend(b, v) ==
    IF v = None \/ v[1] = Empty THEN b
    ELSE [b EXCEPT !.chunks = Append(@, v[1])]

\* mark_done()
BufMarkDone(b) == [b EXCEPT !.done = TRUE]

\* mark_error(error_message)
BufMarkError_NoDone(b, msg) == [b EXCEPT !.error = Some(msg)]
BufMarkError(b, msg) == [b EXCEPT !.error = Some(msg), !.done = TRUE]

\* read_all()
ReadAll(b) == Join(b.chunks)

\* read_since(cursor): "".join(self._chunks)[cursor:], a Python slice: a
\* negative cursor counts from the end, one past the end gives "".
ReadSince_ChunkIndex(b, cursor) ==
    Join(SubSeq(b.chunks, cursor + 1, Len(b.chunks)))
ReadSince(b, cursor) ==
    LET text == Join(b.chunks)
        n == Len(text)
        start == IF cursor >= 0 THEN cursor
                 ELSE IF n + cursor < 0 THEN 0 ELSE n + cursor
    IN  SubSeq(text, start + 1, n)

\* set_typing_stage(stage)
BufSetTypingStage(b, stage) ==
    IF b.typing_stage # stage THEN [b EXCEPT !.typing_stage = stage] ELSE b

----------------------------------------------------------------------------
(* The thread pool *)

RunningSave == {j \in DOMAIN saveJobs : saveJobs[j].pc \in {"running", "settled"}}
RunningGen == {j \in DOMAIN genJobs : genJobs[j].pc \notin {"queued", "finished"}}
RunningHist == {j \in DOMAIN histJobs : histJobs[j].pc \in {"running", "hung", "settled"}}

\* ThreadPoolExecutor(max_workers=8): one of the workers is idle.
WorkerFree_OneLess ==
    Cardinality(RunningSave) + Cardinality(RunningGen) + Cardinality(RunningHist)
        < MaxWorkers - 1
WorkerFree ==
    Cardinality(RunningSave) + Cardinality(RunningGen) + Cardinality(RunningHist)
        < MaxWorkers

----------------------------------------------------------------------------
(* The assistant message of the chat-store, as send_message creates it *)

MsgId == "k1"

NewMessage ==
    [content |-> Empty, error |-> None, saved |-> FALSE, saving |-> FALSE,
     typing_stage |-> None]

\* Python truth of an Optional[str]: None and "" are falsy
Truthy(opt) == opt # None /\ opt[1] # ""

----------------------------------------------------------------------------
(* Context trimming (utils/token_counter.py).  A message is represented by
   its content, a text; the empty text stands for every falsy content. *)

MaxMessages == 3
MaxTokens == 38
MessageOverhead == 10

Prompts == {Empty, <<"a">>, <<"a", " ", "b">>}

RECURSIVE SeqsUpTo(_, _)
SeqsUpTo(S, n) ==
    IF n = 0 THEN {<<>>}
    ELSE LET shorter == SeqsUpTo(S, n - 1)
         IN  shorter \cup {Append(q, x) : q \in {r \in shorter : Len(r) = n - 1}, x \in S}

MessageLists == SeqsUpTo(Texts, MaxMessages)

\* re.findall(r'\b\w+\b', text): the maximal runs of word characters
IsWordChar(c) == c # " "
WordCount(text) ==
    Cardinality({i \in 1..Len(text) :
                    IsWordChar(text[i]) /\ (i = 1 \/ ~IsWordChar(text[i - 1]))})

\* int(word_count * 1.33)
EstimateTokensFromText(text) ==
    IF text = Empty THEN 0 ELSE (WordCount(text) * 133) \div 100

RECURSIVE MessageTokens(_)
MessageTokens(messages) ==
    IF messages = <<>> THEN 0
    ELSE (IF Head(messages) # Empty
          THEN EstimateTokensFromText(Head(messages)) + MessageOverhead
          ELSE 0) + MessageTokens(Tail(messages))

CountTotalTokens(system_prompt, messages) ==
    (IF system_prompt # Empty THEN EstimateTokensFromText(system_prompt) ELSE 0)
    + MessageTokens(messages)

CountTotalTokensFromDicts(message_dicts, system_prompt) ==
    (IF system_prompt # Empty THEN EstimateTokensFromText(system_prompt) ELSE 0)
    + MessageTokens(message_dicts)

Suffix(messages, i) == SubSeq(messages, i, Len(messages))

Least(S) == CHOOSE i \in S : \A j \in S : i <= j

TrimMessagesToFit_IgnoresPrompt(messages, system_prompt, max_tokens) ==
    IF messages = <<>> THEN messages
    ELSE LET fitting == {i \in 1..Len(messages) :
                            CountTotalTokens(Empty, Suffix(messages, i)) <= max_tokens}
         IN  IF fitting = {} THEN <<>> ELSE Suffix(messages, Least(fitting))

\* the loop returns messages[i:] for the first i whose suffix fits
TrimMessagesToFit(messages, system_prompt, max_tokens) ==
    IF messages = <<>> THEN messages
    ELSE LET fitting == {i \in 1..Len(messages) :
                            CountTotalTokens(system_prompt, Suffix(messages, i)) <= max_tokens}
         IN  IF fitting = {} THEN <<>> ELSE Suffix(messages, Least(fitting))

TrimMessageDictsToFit(message_dicts, max_tokens) ==
    IF message_dicts = <<>> THEN message_dicts
    ELSE LET fitting == {i \in 1..Len(message_dicts) :
                            CountTotalTokensFromDicts(Suffix(message_dicts, i), Empty) <= max_tokens}
         IN  IF fitting = {} THEN <<>> ELSE Suffix(message_dicts, Least(fitting))

NoTrim == [op |-> "none", messages |-> <<>>, system_prompt |-> Empty,
           max_tokens |-> 0, result |-> <<>>]

----------------------------------------------------------------------------
(* The locks: the threads of the process, and what a thread is doing *)

MaxCalls == 2

Free == "free"
UiThreads == {"ui1", "ui2"}
Workers == {"worker1", "worker2"}
Threads == UiThreads \cup Workers
Idle == [steps |-> <<>>, calls |-> 0]

\* What a call or a job does with the locks, in program order.  "callable"
\* is the submitted function (or the next step of its generator) running.
\* get_generation_buffer, get_save_status, pop_save_status,
\* pop_history_result and the registration in the submit functions
RegistryCall == <<"acquire_registry", "release_registry">>
\* clear_finished_generation reads buf.is_done inside the registry block
ClearFinishedGenerationCall ==
    <<"acquire_registry", "acquire_buffer", "release_buffer", "release_registry">>
\* read_all, read_since, is_done, error, typing_stage
BufferCall == <<"acquire_buffer", "release_buffer">>
\* submit_streaming_generation._run: set_typing_stage, stream_fn(), then
\* for every chunk an append, then mark_done (or mark_error)
StreamJobSteps ==
    <<"acquire_buffer", "release_buffer", "callable",
      "acquire_buffer", "release_buffer", "callable",
      "acquire_buffer", "release_buffer">>
SaveJobSteps_CallUnderLock == <<"acquire_registry", "callable", "release_registry">>
\* submit_save._run and submit_history_load._run: the callable, then the
\* finally block
SaveJobSteps == <<"callable", "acquire_registry", "release_registry">>

ProgramsOf(t) ==
    IF t \in UiThreads
    THEN {RegistryCall, ClearFinishedGenerationCall, BufferCall}
    ELSE {StreamJobSteps, SaveJobSteps}

----------------------------------------------------------------------------
(* SaveStatus and the save registry *)

\* status = SaveStatus(message_id=message_id); pc is the position of the job
\* that owns it ("rejected": the guard returned before the job was queued).
SaveStatus(k, pc) == [key |-> k, pc |-> pc, ok |-> FALSE, error |-> None]

\* pop_save_status: is_terminal = status.ok or (status.error is not None)
IsTerminal_Inverted(s) == s.ok \/ s.error = None
IsTerminal(s) == s.ok \/ s.error # None

\* submit_save: existing and (existing.ok or existing.error is None)
IsDuplicateSave_AnyEntry(k) == saves[k] # 0
IsDuplicateSave_OkOnly(k) ==
    /\ saves[k] # 0
    /\ saveJobs[saves[k]].ok
IsDuplicateSave(k) ==
    /\ saves[k] # 0
    /\ (saveJobs[saves[k]].ok \/ saveJobs[saves[k]].error = None)

\* submit_save(message_id, save_fn): the guard, the registration and the
\* hand-over to the pool; it returns None either way.
SubmitSaveCall(k) ==
    /\ Len(saveJobs) < MaxSaveSubmits
    /\ ret' = [op |-> "submit_save", key |-> k, val |-> 0]
    /\ IF IsDuplicateSave(k)
       THEN /\ saveJobs' = Append(saveJobs, SaveStatus(k, "rejected"))
            /\ UNCHANGED <<saves, consumed>>
       ELSE /\ saveJobs' = Append(saveJobs, SaveStatus(k, "queued"))
            /\ saves' = [saves EXCEPT ![k] = Len(saveJobs) + 1]
            /\ consumed' = [consumed EXCEPT ![k] = FALSE]
    /\ UNCHANGED <<delivered, genVars, bufVars, histVars, trimVars, lockVars>>

SubmitSave(k) == SubmitSaveCall(k) /\ UNCHANGED uiVars

\* A pool worker takes the job from the queue and calls save_fn().
SaveStart(j) ==
    /\ saveJobs[j].pc = "queued"
    /\ \A i \in 1..(j - 1) : saveJobs[i].pc # "queued"
    /\ WorkerFree
    /\ saveJobs' = [saveJobs EXCEPT ![j].pc = "running"]
    /\ UNCHANGED <<saves, ret, consumed, delivered, genVars, bufVars, histVars, uiVars, trimVars, lockVars>>

\* save_fn() returns: status.ok = True, outside the registry lock.
SaveReturn(j) ==
    /\ saveJobs[j].pc = "running"
    /\ saveJobs' = [saveJobs EXCEPT ![j].pc = "settled", ![j].ok = TRUE]
    /\ UNCHANGED <<saves, ret, consumed, delivered, genVars, bufVars, histVars, uiVars, trimVars, lockVars>>

\* save_fn() raises: status.error = str(save_err), outside the registry lock.
SaveRaise(j) ==
    /\ saveJobs[j].pc = "running"
    /\ \E e \in Errors :
         saveJobs' = [saveJobs EXCEPT ![j].pc = "settled", ![j].error = Some(e)]
    /\ UNCHANGED <<saves, ret, consumed, delivered, genVars, bufVars, histVars, uiVars, trimVars, lockVars>>

\* finally: with _registry_lock: _saves[message_id] = status
SaveRecord_MarksOk(j) ==
    /\ saveJobs[j].pc = "settled"
    /\ saveJobs' = [saveJobs EXCEPT ![j].pc = "finished", ![j].ok = TRUE]
    /\ saves' = [saves EXCEPT ![saveJobs[j].key] = j]
    /\ UNCHANGED <<ret, consumed, delivered, genVars, bufVars, histVars, uiVars, trimVars, lockVars>>
SaveRecord(j) ==
    /\ saveJobs[j].pc = "settled"
    /\ saveJobs' = [saveJobs EXCEPT ![j].pc = "finished"]
    /\ saves' = [saves EXCEPT ![saveJobs[j].key] = j]
    /\ UNCHANGED <<ret, consumed, delivered, genVars, bufVars, histVars, uiVars, trimVars, lockVars>>

\* pop_save_status(message_id)
PopSaveStatusCall(k) ==
    LET status == saves[k] IN
    IF status = 0 \/ ~IsTerminal(saveJobs[status])
    THEN /\ ret' = [op |-> "pop_save_status", key |-> k, val |-> 0]
         /\ UNCHANGED <<saveVars, genVars, bufVars, histVars, trimVars, lockVars>>
    ELSE /\ saves' = [saves EXCEPT ![k] = 0]
         /\ ret' = [op |-> "pop_save_status", key |-> k, val |-> status]
         /\ consumed' = [consumed EXCEPT ![k] = TRUE]
         /\ delivered' = delivered \cup {status}
         /\ UNCHANGED <<saveJobs, genVars, bufVars, histVars, trimVars, lockVars>>

PopSaveStatus(k) == PopSaveStatusCall(k) /\ UNCHANGED uiVars

QueueInit ==
    /\ saveJobs = <<>>
    /\ saves = [k \in Keys |-> 0]
    /\ ret = [op |-> "none", key |-> "", val |-> 0]
    /\ consumed = [k \in Keys |-> FALSE]
    /\ delivered = {}
    /\ genJobs = <<>>
    /\ generations = [k \in Keys |-> 0]
    /\ buffer = NewBuffer
    /\ appended = <<>>
    /\ read = [cursor |-> 0, text |-> Empty]
    /\ histJobs = <<>>
    /\ history = [k \in Keys |-> 0]
    /\ assistant_message = NewMessage
    /\ tickpc = "idle"
    /\ registry_lock = Free
    /\ buffer_lock = Free
    /\ thread = [t \in Threads |-> Idle]

Init == QueueInit /\ trim = NoTrim

SaveNext ==
    \/ \E k \in Keys : SubmitSave(k)
    \/ \E k \in Keys : PopSaveStatus(k)
    \/ \E j \in DOMAIN saveJobs : SaveStart(j)
    \/ \E j \in DOMAIN saveJobs : SaveReturn(j)
    \/ \E j \in DOMAIN saveJobs : SaveRaise(j)
    \/ \E j \in DOMAIN saveJobs : SaveRecord(j)

SaveSpec == Init /\ [][SaveNext]_vars

\* The pool runs every queued job, every save_fn returns or raises, and the
\* UI timer keeps polling each key.
SaveFairSpec ==
    /\ SaveSpec
    /\ \A j \in 1..MaxSaveSubmits :
         /\ WF_vars(j \in DOMAIN saveJobs /\ SaveStart(j))
         /\ WF_vars(j \in DOMAIN saveJobs /\ (SaveReturn(j) \/ SaveRaise(j)))
         /\ WF_vars(j \in DOMAIN saveJobs /\ SaveRecord(j))
    /\ \A k \in Keys : WF_vars(PopSaveStatus(k))

----------------------------------------------------------------------------
(* Generation jobs and the generation registry *)

\* str() of the exceptions _run itself provokes on a None result
TypeErrorLen == "object of type 'NoneType' has no len()"
AttrErrorSplit == "'NoneType' object has no attribute 'split'"

\* The closure _run of one submission with the StreamingBuffer it writes.
\* returned/result: what generate_fn() returned (result None is Python's None);
\* raised: str() of the exception the callable raised; exc: str() of the
\* exception the except clause is handling; words: the words still to append;
\* yielded: the chunks the stream has produced so far.
GenJob(k, kind) ==
    [key |-> k, kind |-> kind, pc |-> "queued", buf |-> NewBuffer,
     returned |-> FALSE, result |-> None, raised |-> None, exc |-> None,
     words |-> <<>>, yielded |-> <<>>]

\* submit_generation(message_id, generate_fn, simulate_stream)
SubmitGeneration(k, simulate_stream) ==
    /\ Len(genJobs) < MaxGenSubmits
    /\ genJobs' = Append(genJobs, GenJob(k, IF simulate_stream THEN "sim" ELSE "gen"))
    /\ generations' = [generations EXCEPT ![k] = Len(genJobs) + 1]
    /\ ret' = [op |-> "submit_generation", key |-> k, val |-> 0]
    /\ UNCHANGED <<saveVars, bufVars, histVars, uiVars, trimVars, lockVars>>

\* submit_streaming_generation(message_id, stream_generator_fn)
SubmitStreamingGeneration_NoRegister(k) ==
    /\ Len(genJobs) < MaxGenSubmits
    /\ genJobs' = Append(genJobs, GenJob(k, "stream"))
    /\ ret' = [op |-> "submit_streaming_generation", key |-> k, val |-> 0]
    /\ UNCHANGED <<saveVars, generations, bufVars, histVars, uiVars, trimVars, lockVars>>
SubmitStreamingGeneration(k) ==
    /\ Len(genJobs) < MaxGenSubmits
    /\ genJobs' = Append(genJobs, GenJob(k, "stream"))
    /\ generations' = [generations EXCEPT ![k] = Len(genJobs) + 1]
    /\ ret' = [op |-> "submit_streaming_generation", key |-> k, val |-> 0]
    /\ UNCHANGED <<saveVars, bufVars, histVars, uiVars, trimVars, lockVars>>

\* A pool worker takes the job from the queue and enters _run.
GenStart(j) ==
    /\ genJobs[j].pc = "queued"
    /\ \A i \in 1..(j - 1) : genJobs[i].pc # "queued"
    /\ WorkerFree
    /\ genJobs' = [genJobs EXCEPT ![j].pc = "call"]
    /\ UNCHANGED <<saveVars, ret, generations, bufVars, histVars, uiVars, trimVars, lockVars>>

\* simulate_stream false: result_text = generate_fn(); buffer.append(result_text)
GenReturn_FirstWord(j, v) ==
    /\ genJobs[j].kind = "gen"
    /\ genJobs[j].pc = "call"
    /\ genJobs' = [genJobs EXCEPT
                     ![j].returned = TRUE, ![j].result = v, ![j].pc = "mark",
                     ![j].buf = BufAppend(@, IF v = None THEN v
                                             ELSE Some(Head(Split(v[1]))))]
    /\ UNCHANGED <<saveVars, ret, generations, bufVars, histVars, uiVars, trimVars, lockVars>>
GenReturn(j, v) ==
    /\ genJobs[j].kind = "gen"
    /\ genJobs[j].pc = "call"
    /\ genJobs' = [genJobs EXCEPT ![j].returned = TRUE, ![j].result = v,
                                  ![j].buf = BufAppend(@, v), ![j].pc = "mark"]
    /\ UNCHANGED <<saveVars, ret, generations, bufVars, histVars, uiVars, trimVars, lockVars>>

\* buffer.mark_done(), then the debug line that takes len(result_text)
GenMarkDone(j) ==
    /\ genJobs[j].kind = "gen"
    /\ genJobs[j].pc = "mark"
    /\ genJobs' =
         IF genJobs[j].result = None
         THEN [genJobs EXCEPT ![j].buf = BufMarkDone(@), ![j].pc = "except",
                              ![j].exc = Some(TypeErrorLen)]
         ELSE [genJobs EXCEPT ![j].buf = BufMarkDone(@), ![j].pc = "finished"]
    /\ UNCHANGED <<saveVars, ret, generations, bufVars, histVars, uiVars, trimVars, lockVars>>

\* simulate_stream true: result_text = generate_fn(); words = result_text.split(" ")
SimReturn(j, v) ==
    /\ genJobs[j].kind = "sim"
    /\ genJobs[j].pc = "call"
    /\ genJobs' =
         IF v = None
         THEN [genJobs EXCEPT ![j].returned = TRUE, ![j].result = v,
                              ![j].pc = "except", ![j].exc = Some(AttrErrorSplit)]
         ELSE [genJobs EXCEPT ![j].returned = TRUE, ![j].result = v,
                              ![j].pc = "words", ![j].words = Split(v[1])]
    /\ UNCHANGED <<saveVars, ret, generations, bufVars, histVars, uiVars, trimVars, lockVars>>

\* for word in words: buffer.append(word + " "); time.sleep(...)
SimAppend(j) ==
    /\ genJobs[j].pc = "words"
    /\ genJobs[j].words # <<>>
    /\ genJobs' = [genJobs EXCEPT
                     ![j].buf = BufAppend(@, Some(Head(genJobs[j].words) \o <<" ">>)),
                     ![j].words = Tail(@)]
    /\ UNCHANGED <<saveVars, ret, generations, bufVars, histVars, uiVars, trimVars, lockVars>>

\* the loop is over: buffer.mark_done()
SimMarkDone(j) ==
    /\ genJobs[j].pc = "words"
    /\ genJobs[j].words = <<>>
    /\ genJobs' = [genJobs EXCEPT ![j].buf = BufMarkDone(@), ![j].pc = "finished"]
    /\ UNCHANGED <<saveVars, ret, generations, bufVars, histVars, uiVars, trimVars, lockVars>>

\* generate_fn() raises
GenRaise(j, e) ==
    /\ genJobs[j].kind \in {"gen", "sim"}
    /\ genJobs[j].pc = "call"
    /\ genJobs' = [genJobs EXCEPT ![j].raised = Some(e), ![j].exc = Some(e),
                                  ![j].pc = "except"]
    /\ UNCHANGED <<saveVars, ret, generations, bufVars, histVars, uiVars, trimVars, lockVars>>

\* except Exception as gen_err: buffer.mark_error(str(gen_err))
GenMarkError_MarkDone(j) ==
    /\ genJobs[j].pc = "except"
    /\ genJobs' = [genJobs EXCEPT ![j].buf = BufMarkDone(@), ![j].pc = "finished"]
    /\ UNCHANGED <<saveVars, ret, generations, bufVars, histVars, uiVars, trimVars, lockVars>>
GenMarkError(j) ==
    /\ genJobs[j].pc = "except"
    /\ genJobs' = [genJobs EXCEPT ![j].buf = BufMarkError(@, genJobs[j].exc[1]),
                                  ![j].pc = "finished"]
    /\ UNCHANGED <<saveVars, ret, generations, bufVars, histVars, uiVars, trimVars, lockVars>>

\* buffer.set_typing_stage("thinking"); stream_generator = stream_generator_fn()
StreamCall(j) ==
    /\ genJobs[j].kind = "stream"
    /\ genJobs[j].pc = "call"
    /\ genJobs' = [genJobs EXCEPT ![j].buf = BufSetTypingStage(@, "thinking"),
                                  ![j].pc = "iter"]
    /\ UNCHANGED <<saveVars, ret, generations, bufVars, histVars, uiVars, trimVars, lockVars>>

\* for chunk in stream_generator: if chunk: buffer.append(chunk)
StreamYield_MarkDoneInLoop(j) ==
    /\ genJobs[j].pc = "iter"
    /\ Len(genJobs[j].yielded) < Len(StreamScript)
    /\ LET chunk == StreamScript[Len(genJobs[j].yielded) + 1] IN
       genJobs' = [genJobs EXCEPT
                     ![j].yielded = Append(@, chunk),
                     ![j].buf = BufMarkDone(IF chunk # Empty
                                            THEN BufAppend(@, Some(chunk)) ELSE @)]
    /\ UNCHANGED <<saveVars, ret, generations, bufVars, histVars, uiVars, trimVars, lockVars>>
StreamYield_WritesRegistered(j) ==
    /\ genJobs[j].pc = "iter"
    /\ Len(genJobs[j].yielded) < Len(StreamScript)
    /\ LET chunk == StreamScript[Len(genJobs[j].yielded) + 1]
           registered == generations[genJobs[j].key]
       IN  genJobs' = [genJobs EXCEPT
                         ![j].yielded = Append(@, chunk),
                         ![registered].buf = IF chunk # Empty
                                             THEN BufAppend(@, Some(chunk)) ELSE @]
    /\ UNCHANGED <<saveVars, ret, generations, bufVars, histVars, uiVars, trimVars, lockVars>>
StreamYield(j) ==
    /\ genJobs[j].pc = "iter"
    /\ Len(genJobs[j].yielded) < Len(StreamScript)
    /\ LET chunk == StreamScript[Len(genJobs[j].yielded) + 1] IN
       genJobs' = [genJobs EXCEPT
                     ![j].yielded = Append(@, chunk),
                     ![j].buf = IF chunk # Empty THEN BufAppend(@, Some(chunk)) ELSE @]
    /\ UNCHANGED <<saveVars, ret, generations, bufVars, histVars, uiVars, trimVars, lockVars>>

\* the stream ends: buffer.mark_done()
StreamEnd_AutoClear(j) ==
    /\ genJobs[j].pc = "iter"
    /\ genJobs' = [genJobs EXCEPT ![j].buf = BufMarkDone(@), ![j].pc = "finished"]
    /\ generations' = [generations EXCEPT ![genJobs[j].key] = 0]
    /\ UNCHANGED <<saveVars, ret, bufVars, histVars, uiVars, trimVars, lockVars>>
StreamEnd(j) ==
    /\ genJobs[j].pc = "iter"
    /\ genJobs' = [genJobs EXCEPT ![j].buf = BufMarkDone(@), ![j].pc = "finished"]
    /\ UNCHANGED <<saveVars, ret, generations, bufVars, histVars, uiVars, trimVars, lockVars>>

\* stream_generator_fn() raises, or the stream raises while it is consumed
StreamRaise(j, e) ==
    /\ genJobs[j].kind = "stream"
    /\ genJobs[j].pc \in {"call", "iter"}
    /\ genJobs' = [genJobs EXCEPT
                     ![j].buf = IF genJobs[j].pc = "call"
                                THEN BufSetTypingStage(@, "thinking") ELSE @,
                     ![j].raised = Some(e), ![j].exc = Some(e), ![j].pc = "except"]
    /\ UNCHANGED <<saveVars, ret, generations, bufVars, histVars, uiVars, trimVars, lockVars>>

GenNext ==
    \/ \E k \in Keys, simulate_stream \in BOOLEAN : SubmitGeneration(k, simulate_stream)
    \/ \E k \in Keys : SubmitStreamingGeneration(k)
    \/ \E j \in DOMAIN genJobs : GenStart(j)
    \/ \E j \in DOMAIN genJobs, v \in {None} \cup {Some(t) : t \in Texts} : GenReturn(j, v)
    \/ \E j \in DOMAIN genJobs : GenMarkDone(j)
    \/ \E j \in DOMAIN genJobs, v \in {None} \cup {Some(t) : t \in Texts} : SimReturn(j, v)
    \/ \E j \in DOMAIN genJobs : SimAppend(j)
    \/ \E j \in DOMAIN genJobs : SimMarkDone(j)
    \/ \E j \in DOMAIN genJobs, e \in Errors : GenRaise(j, e)
    \/ \E j \in DOMAIN genJobs : GenMarkError(j)
    \/ \E j \in DOMAIN genJobs : StreamCall(j)
    \/ \E j \in DOMAIN genJobs : StreamYield(j)
    \/ \E j \in DOMAIN genJobs : StreamEnd(j)
    \/ \E j \in DOMAIN genJobs, e \in Errors : StreamRaise(j, e)

GenSpec == Init /\ [][GenNext]_vars

\* The pool runs every queued job and every started _run keeps taking steps;
\* whether a callable returns or raises stays its own choice.
GenFairSpec ==
    /\ GenSpec
    /\ \A j \in 1..MaxGenSubmits :
         /\ WF_vars(j \in DOMAIN genJobs /\ GenStart(j))
         /\ WF_vars(j \in DOMAIN genJobs /\ (GenMarkDone(j) \/ SimAppend(j) \/ SimMarkDone(j)))
         /\ WF_vars(j \in DOMAIN genJobs /\ GenMarkError(j))

----------------------------------------------------------------------------
(* History loads *)

\* The closure _run of one submit_history_load with its local `result`.
\* raised: load_fn() raised; pops: history, how often a pop returned the list.
HistJob(k) ==
    [key |-> k, pc |-> "queued", result |-> <<>>, raised |-> FALSE, pops |-> 0]

\* submit_history_load(key, load_fn)
SubmitHistoryLoad(k) ==
    /\ histJobs' = Append(histJobs, HistJob(k))
    /\ ret' = [op |-> "submit_history_load", key |-> k, val |-> 0]
    /\ UNCHANGED <<saveVars, genVars, bufVars, history, uiVars, trimVars, lockVars>>

\* A pool worker takes the job from the queue and calls load_fn().
HistStart(j) ==
    /\ histJobs[j].pc = "queued"
    /\ \A i \in 1..(j - 1) : histJobs[i].pc # "queued"
    /\ WorkerFree
    /\ histJobs' = [histJobs EXCEPT ![j].pc = "running"]
    /\ UNCHANGED <<saveVars, ret, genVars, bufVars, history, uiVars, trimVars, lockVars>>

\* result = load_fn(); the debug line takes len(result), which raises on a
\* None result and lands in the except clause: result = []
HistReturn(j, v) ==
    /\ histJobs[j].pc = "running"
    /\ histJobs' = [histJobs EXCEPT ![j].pc = "settled",
                                    ![j].result = IF v = None THEN <<>> ELSE v[1]]
    /\ UNCHANGED <<saveVars, ret, genVars, bufVars, history, uiVars, trimVars, lockVars>>

\* load_fn() never returns (it waits on a service that does not answer);
\* the worker stays in the call.
HistHang(j) ==
    /\ histJobs[j].pc = "running"
    /\ histJobs' = [histJobs EXCEPT ![j].pc = "hung"]
    /\ UNCHANGED <<saveVars, ret, genVars, bufVars, history, uiVars, trimVars, lockVars>>

\* load_fn() raises: except Exception: result = []
HistRaise_KeepsUnset(j) ==
    /\ histJobs[j].pc = "running"
    /\ histJobs' = [histJobs EXCEPT ![j].pc = "finished", ![j].raised = TRUE]
    /\ UNCHANGED <<saveVars, ret, genVars, bufVars, history, uiVars, trimVars, lockVars>>
HistRaise(j) ==
    /\ histJobs[j].pc = "running"
    /\ histJobs' = [histJobs EXCEPT ![j].pc = "settled", ![j].result = <<>>,
                                    ![j].raised = TRUE]
    /\ UNCHANGED <<saveVars, ret, genVars, bufVars, history, uiVars, trimVars, lockVars>>

\* finally: with _registry_lock: _history_results[key] = result
HistRecord(j) ==
    /\ histJobs[j].pc = "settled"
    /\ histJobs' = [histJobs EXCEPT ![j].pc = "finished"]
    /\ history' = [history EXCEPT ![histJobs[j].key] = j]
    /\ UNCHANGED <<saveVars, ret, genVars, bufVars, uiVars, trimVars, lockVars>>

\* pop_history_result(key): _history_results.pop(key, None)
\* (a pop(key) with no default raises KeyError on a missing key: val -1)
PopHistoryResult_KeyError(k) ==
    /\ ret' = [op |-> "pop_history_result", key |-> k,
               val |-> IF history[k] = 0 THEN -1 ELSE history[k]]
    /\ history' = [history EXCEPT ![k] = 0]
    /\ histJobs' = IF history[k] = 0 THEN histJobs
                   ELSE [histJobs EXCEPT ![history[k]].pops = @ + 1]
    /\ UNCHANGED <<saveVars, genVars, bufVars, uiVars, trimVars, lockVars>>
PopHistoryResult_Peek(k) ==
    /\ ret' = [op |-> "pop_history_result", key |-> k, val |-> history[k]]
    /\ histJobs' = IF history[k] = 0 THEN histJobs
                   ELSE [histJobs EXCEPT ![history[k]].pops = @ + 1]
    /\ UNCHANGED <<saveVars, genVars, bufVars, history, uiVars, trimVars, lockVars>>
PopHistoryResult(k) ==
    /\ ret' = [op |-> "pop_history_result", key |-> k, val |-> history[k]]
    /\ history' = [history EXCEPT ![k] = 0]
    /\ histJobs' = IF history[k] = 0 THEN histJobs
                   ELSE [histJobs EXCEPT ![history[k]].pops = @ + 1]
    /\ UNCHANGED <<saveVars, genVars, bufVars, uiVars, trimVars, lockVars>>

HistRoom == Len(histJobs) < MaxHistSubmits

HistNext ==
    \/ \E k \in Keys : HistRoom /\ SubmitHistoryLoad(k)
    \/ \E k \in Keys : PopHistoryResult(k)
    \/ \E j \in DOMAIN histJobs : HistStart(j)
    \/ \E j \in DOMAIN histJobs, v \in {None} \cup {Some(l) : l \in Lists} : HistReturn(j, v)
    \/ \E j \in DOMAIN histJobs : HistRaise(j)
    \/ \E j \in DOMAIN histJobs : HistRecord(j)

HistSpec == Init /\ [][HistNext]_vars

----------------------------------------------------------------------------
(* The pool under load: more jobs than workers, some callables never return.
   The pool treats every job alike; history loads stand for all of them. *)

PoolRoom == Len(histJobs) < MaxPoolJobs

PoolNext ==
    \/ PoolRoom /\ SubmitHistoryLoad("k1")
    \/ \E j \in DOMAIN histJobs : HistStart(j)
    \/ \E j \in DOMAIN histJobs : HistReturn(j, Some(<<1>>))
    \/ \E j \in DOMAIN histJobs : HistHang(j)
    \/ \E j \in DOMAIN histJobs : HistRecord(j)

PoolSpec == Init /\ [][PoolNext]_vars

\* The pool does not stand still while it has a step to take: a free worker
\* takes the next queued job, a callable that does not hang returns, a _run
\* that left its callable runs its finally block.  Submitting and hanging
\* are left to the environment.
PoolStep ==
    \E j \in DOMAIN histJobs :
        HistStart(j) \/ HistReturn(j, Some(<<1>>)) \/ HistRecord(j)

PoolFairSpec == PoolSpec /\ WF_vars(PoolStep)

----------------------------------------------------------------------------
(* The three registries together, with the lookups *)

\* get_generation_buffer(message_id): _generations.get(message_id)
GetGenerationBuffer(k) ==
    /\ ret' = [op |-> "get_generation_buffer", key |-> k, val |-> generations[k]]
    /\ UNCHANGED <<saveVars, genVars, bufVars, histVars, uiVars, trimVars, lockVars>>

\* get_save_status(message_id): _saves.get(message_id)
GetSaveStatus(k) ==
    /\ ret' = [op |-> "get_save_status", key |-> k, val |-> saves[k]]
    /\ UNCHANGED <<saveVars, genVars, bufVars, histVars, uiVars, trimVars, lockVars>>

\* clear_finished_generation(message_id): if buf and buf.is_done: pop
ClearFinishedGeneration_Always(k) ==
    /\ generations' = [generations EXCEPT ![k] = 0]
    /\ ret' = [op |-> "clear_finished_generation", key |-> k, val |-> 0]
    /\ UNCHANGED <<saveVars, genJobs, bufVars, histVars, uiVars, trimVars, lockVars>>
ClearFinishedGeneration(k) ==
    /\ generations' =
         IF generations[k] # 0 /\ genJobs[generations[k]].buf.done
         THEN [generations EXCEPT ![k] = 0]
         ELSE generations
    /\ ret' = [op |-> "clear_finished_generation", key |-> k, val |-> 0]
    /\ UNCHANGED <<saveVars, genJobs, bufVars, histVars, uiVars, trimVars, lockVars>>

\* The jobs handed to the one pool by all three kinds of submit. The steps
\* of a job are those that decide whether and when its entry exists: the
\* callables return one sample value, streams end without a chunk, and only
\* save callables raise (a failed entry is what reopens a key for submit_save).
RegRoom == Len(saveJobs) + Len(genJobs) + Len(histJobs) < MaxRegJobs

RegNext ==
    \/ \E k \in Keys : RegRoom /\ SubmitGeneration(k, FALSE)
    \/ \E k \in Keys : RegRoom /\ SubmitStreamingGeneration(k)
    \/ \E k \in Keys : RegRoom /\ SubmitSave(k)
    \/ \E k \in Keys : RegRoom /\ SubmitHistoryLoad(k)
    \/ \E k \in Keys : GetGenerationBuffer(k)
    \/ \E k \in Keys : ClearFinishedGeneration(k)
    \/ \E k \in Keys : GetSaveStatus(k)
    \/ \E k \in Keys : PopSaveStatus(k)
    \/ \E k \in Keys : PopHistoryResult(k)
    \/ \E j \in DOMAIN genJobs : GenStart(j)
    \/ \E j \in DOMAIN genJobs : GenReturn(j, Some(<<"a">>))
    \/ \E j \in DOMAIN genJobs : GenMarkDone(j)
    \/ \E j \in DOMAIN genJobs : StreamCall(j)
    \/ \E j \in DOMAIN genJobs : StreamEnd(j)
    \/ \E j \in DOMAIN saveJobs : SaveStart(j)
    \/ \E j \in DOMAIN saveJobs : SaveReturn(j)
    \/ \E j \in DOMAIN saveJobs : SaveRaise(j)
    \/ \E j \in DOMAIN saveJobs : SaveRecord(j)
    \/ \E j \in DOMAIN histJobs : HistStart(j)
    \/ \E j \in DOMAIN histJobs : HistReturn(j, Some(<<1>>))
    \/ \E j \in DOMAIN histJobs : HistRecord(j)

RegSpec == Init /\ [][RegNext]_vars

----------------------------------------------------------------------------
(* The UI tick, for the assistant message MsgId; every tick gets the
   chat-store the previous tick returned *)

\* detect_and_format_tables(text): a text without a tab is returned as it is;
\* no sample text here holds a tab.
DetectAndFormatTables(text) == text

\* The message after the buffer's stage and text have been merged into it.
MergeBuffer(m, b) ==
    LET staged == [m EXCEPT !.typing_stage = Some(b.typing_stage)]
        full_text == ReadAll(b)
        merged == IF full_text # staged.content
                  THEN [staged EXCEPT !.content = full_text,
                                      !.typing_stage = IF full_text # Empty THEN None ELSE @]
                  ELSE staged
    IN  IF b.done
        THEN [merged EXCEPT !.typing_stage = None,
                            !.content = DetectAndFormatTables(@),
                            !.error = IF Truthy(b.error) /\ ~Truthy(@) THEN b.error ELSE @]
        ELSE merged

\* not m.get("error") and not m.get("saved") and m.get("content")
\* and not m.get("saving", False)
WantsSave_IgnoresSaving(m) == ~Truthy(m.error) /\ ~m.saved /\ m.content # Empty
WantsSave(m) == ~Truthy(m.error) /\ ~m.saved /\ m.content # Empty /\ ~m.saving

\* tick, first loop: get_generation_buffer(m["id"]), merge the buffer into the
\* message and, when the buffer is done, submit_save(m["id"], save_assistant).
\* The buffer is read as it is at one moment.
TickGenerations ==
    /\ tickpc = "idle"
    /\ tickpc' = "saves"
    /\ IF generations[MsgId] = 0
       THEN /\ ret' = [op |-> "get_generation_buffer", key |-> MsgId, val |-> 0]
            /\ UNCHANGED <<saveVars, genVars, bufVars, histVars, assistant_message, trimVars, lockVars>>
       ELSE LET b == genJobs[generations[MsgId]].buf
                m == MergeBuffer(assistant_message, b)
            IN  IF b.done /\ WantsSave(m)
                THEN /\ SubmitSaveCall(MsgId)
                     /\ assistant_message' = [m EXCEPT !.saving = TRUE]
                ELSE /\ ret' = [op |-> "get_generation_buffer", key |-> MsgId,
                                val |-> generations[MsgId]]
                     /\ assistant_message' = m
                     /\ UNCHANGED <<saveVars, genVars, bufVars, histVars, trimVars, lockVars>>

\* tick, second loop: status = pop_save_status(m["id"])
TickSaveStatuses ==
    /\ tickpc = "saves"
    /\ tickpc' = "idle"
    /\ PopSaveStatusCall(MsgId)
    /\ LET status == saves[MsgId] IN
       assistant_message' =
         IF status = 0 \/ ~IsTerminal(saveJobs[status]) THEN assistant_message
         ELSE IF saveJobs[status].ok
         THEN [assistant_message EXCEPT !.saved = TRUE, !.saving = FALSE, !.error = None]
         ELSE [assistant_message EXCEPT
                 !.saved = FALSE, !.saving = FALSE,
                 !.error = IF Truthy(saveJobs[status].error) THEN saveJobs[status].error
                           ELSE Some("Failed to save")]

\* send_message submits one streaming generation under the fresh id MsgId;
\* the pool runs it and the saves while the ticks go on.
TickNext ==
    \/ genJobs = <<>> /\ SubmitStreamingGeneration(MsgId)
    \/ TickGenerations
    \/ TickSaveStatuses
    \/ \E j \in DOMAIN genJobs : GenStart(j)
    \/ \E j \in DOMAIN genJobs : StreamCall(j)
    \/ \E j \in DOMAIN genJobs : StreamYield(j)
    \/ \E j \in DOMAIN genJobs : StreamEnd(j)
    \/ \E j \in DOMAIN genJobs, e \in Errors : StreamRaise(j, e)
    \/ \E j \in DOMAIN genJobs : GenMarkError(j)
    \/ \E j \in DOMAIN saveJobs : SaveStart(j)
    \/ \E j \in DOMAIN saveJobs : SaveReturn(j)
    \/ \E j \in DOMAIN saveJobs : SaveRaise(j)
    \/ \E j \in DOMAIN saveJobs : SaveRecord(j)

TickSpec == Init /\ [][TickNext]_vars

----------------------------------------------------------------------------
(* The trim functions, called with any message list, prompt and limit *)

TokenLimits == (0 - 1)..MaxTokens

TrimInit ==
    /\ QueueInit
    /\ \E messages \in MessageLists, system_prompt \in Prompts,
          max_tokens \in TokenLimits :
           trim = [op |-> "pending", messages |-> messages,
                   system_prompt |-> system_prompt, max_tokens |-> max_tokens,
                   result |-> <<>>]

CallTrimMessagesToFit ==
    /\ trim.op = "pending"
    /\ trim' = [trim EXCEPT
                   !.op = "trim_messages_to_fit",
                   !.result = TrimMessagesToFit(trim.messages, trim.system_prompt,
                                                trim.max_tokens)]
    /\ UNCHANGED <<saveVars, ret, genVars, bufVars, histVars, uiVars, lockVars>>

\* trim_message_dicts_to_fit takes no system prompt
CallTrimMessageDictsToFit ==
    /\ trim.op = "pending"
    /\ trim' = [trim EXCEPT
                   !.op = "trim_message_dicts_to_fit",
                   !.system_prompt = Empty,
                   !.result = TrimMessageDictsToFit(trim.messages, trim.max_tokens)]
    /\ UNCHANGED <<saveVars, ret, genVars, bufVars, histVars, uiVars, lockVars>>

TrimNext == CallTrimMessagesToFit \/ CallTrimMessageDictsToFit

TrimSpec == TrimInit /\ [][TrimNext]_vars

----------------------------------------------------------------------------
(* The locks.  threading.Lock is not reentrant and not fair: a free lock
   goes to any thread that asks for it. *)

NextStep(t) == IF thread[t].steps = <<>> THEN "none" ELSE Head(thread[t].steps)

Advance(t) == thread' = [thread EXCEPT ![t].steps = Tail(@)]

notLockVars == <<saveVars, ret, genVars, bufVars, histVars, uiVars, trimVars>>

BeginCall(t, program) ==
    /\ thread[t].steps = <<>>
    /\ thread[t].calls < MaxCalls
    /\ thread' = [thread EXCEPT ![t] = [steps |-> program, calls |-> @.calls + 1]]
    /\ UNCHANGED <<registry_lock, buffer_lock, notLockVars>>

AcquireRegistry(t) ==
    /\ NextStep(t) = "acquire_registry"
    /\ registry_lock = Free
    /\ registry_lock' = t
    /\ Advance(t)
    /\ UNCHANGED <<buffer_lock, notLockVars>>

ReleaseRegistry(t) ==
    /\ NextStep(t) = "release_registry"
    /\ registry_lock' = Free
    /\ Advance(t)
    /\ UNCHANGED <<buffer_lock, notLockVars>>

AcquireBuffer(t) ==
    /\ NextStep(t) = "acquire_buffer"
    /\ buffer_lock = Free
    /\ buffer_lock' = t
    /\ Advance(t)
    /\ UNCHANGED <<registry_lock, notLockVars>>

ReleaseBuffer(t) ==
    /\ NextStep(t) = "release_buffer"
    /\ buffer_lock' = Free
    /\ Advance(t)
    /\ UNCHANGED <<registry_lock, notLockVars>>

\* the callable returns, raises or yields; it may also never do so
CallableReturns(t) ==
    /\ NextStep(t) = "callable"
    /\ Advance(t)
    /\ UNCHANGED <<registry_lock, buffer_lock, notLockVars>>

LockStep(t) ==
    AcquireRegistry(t) \/ ReleaseRegistry(t) \/ AcquireBuffer(t) \/ ReleaseBuffer(t)

LockNext ==
    \/ \E t \in Threads : \E program \in ProgramsOf(t) : BeginCall(t, program)
    \/ \E t \in Threads : AcquireRegistry(t)
    \/ \E t \in Threads : ReleaseRegistry(t)
    \/ \E t \in Threads : AcquireBuffer(t)
    \/ \E t \in Threads : ReleaseBuffer(t)
    \/ \E t \in Threads : CallableReturns(t)

LockSpec == Init /\ [][LockNext]_vars

\* every thread keeps executing its own code; nothing is assumed about when
\* a call is made or whether a callable ever returns
LockFairSpec == LockSpec /\ \A t \in Threads : WF_vars(LockStep(t))

----------------------------------------------------------------------------
(* One StreamingBuffer called directly, in any order of its methods *)

BufferAppend(v) ==
    /\ Len(buffer.chunks) < MaxAppends
    /\ buffer' = BufAppend(buffer, v)
    /\ appended' = IF v = None \/ v[1] = Empty THEN appended ELSE Append(appended, v[1])
    /\ ret' = [op |-> "append", key |-> "", val |-> 0]
    /\ UNCHANGED <<saveVars, genVars, read, histVars, uiVars, trimVars, lockVars>>

BufferMarkDone ==
    /\ buffer' = BufMarkDone(buffer)
    /\ ret' = [op |-> "mark_done", key |-> "", val |-> 0]
    /\ UNCHANGED <<saveVars, genVars, appended, read, histVars, uiVars, trimVars, lockVars>>

BufferMarkError(msg) ==
    /\ buffer' = BufMarkError(buffer, msg)
    /\ ret' = [op |-> "mark_error", key |-> "", val |-> 0]
    /\ UNCHANGED <<saveVars, genVars, appended, read, histVars, uiVars, trimVars, lockVars>>

BufferReadAll ==
    /\ read' = [cursor |-> 0, text |-> ReadAll(buffer)]
    /\ ret' = [op |-> "read_all", key |-> "", val |-> 0]
    /\ UNCHANGED <<saveVars, genVars, buffer, appended, histVars, uiVars, trimVars, lockVars>>

BufferReadSince(cursor) ==
    /\ read' = [cursor |-> cursor, text |-> ReadSince(buffer, cursor)]
    /\ ret' = [op |-> "read_since", key |-> "", val |-> 0]
    /\ UNCHANGED <<saveVars, genVars, buffer, appended, histVars, uiVars, trimVars, lockVars>>

BufNext ==
    \/ \E v \in {None} \cup {Some(t) : t \in Texts} : BufferAppend(v)
    \/ BufferMarkDone
    \/ \E msg \in Errors : BufferMarkError(msg)
    \/ BufferReadAll
    \/ \E cursor \in (-1)..(Len(ReadAll(buffer)) + 1) : BufferReadSince(cursor)

BufSpec == Init /\ [][BufNext]_vars

----------------------------------------------------------------------------
(* Claims about the save registry *)

SaveOf(k) == saveJobs[saves[k]]
EntryPending(k) == saves[k] # 0 /\ ~SaveOf(k).ok /\ SaveOf(k).error = None
EntrySucceeded(k) == saves[k] # 0 /\ SaveOf(k).ok
SavesOfKey(k) == {j \in DOMAIN saveJobs : saveJobs[j].key = k}

\* C1: once a pop_save_status(k) has returned a terminal status, every later
\* pop_save_status(k) returns None until a new submit_save(k) is accepted.
C1_TerminalPoppedOnce ==
    [][\A k \in Keys : (PopSaveStatus(k) /\ consumed[k]) => ret'.val = 0]_vars

\* C2: for every key at most one save callable is executing at any moment,
\* and at most one save callable ever completes successfully.
C2_AtMostOneSavePerKey ==
    \A k \in Keys :
        /\ Cardinality({j \in SavesOfKey(k) : saveJobs[j].pc = "running"}) <= 1
        /\ Cardinality({j \in SavesOfKey(k) : saveJobs[j].ok}) <= 1

\* C3: submit_save(k, f) while the entry of k is pending or succeeded queues
\* no job and leaves the registry and every existing status unchanged, and
\* the callable of such a submission is never executed.
C3_DuplicateSubmitIsNoOp ==
    [][/\ \A k \in Keys :
            (SubmitSave(k) /\ (EntryPending(k) \/ EntrySucceeded(k))) =>
                /\ saves' = saves
                /\ \A j \in DOMAIN saveJobs : saveJobs'[j] = saveJobs[j]
                /\ saveJobs'[Len(saveJobs')].pc = "rejected"
       /\ \A j \in DOMAIN saveJobs :
            saveJobs[j].pc = "rejected" => saveJobs'[j] = saveJobs[j]]_vars

\* Two submissions of k while the first is pending: the first callable is
\* running, the second was rejected.
C3_Witness ==
    /\ Len(saveJobs) = 2
    /\ saveJobs[1].key = saveJobs[2].key
    /\ saveJobs[1].pc = "running"
    /\ saveJobs[2].pc = "rejected"
    /\ saves[saveJobs[1].key] = 1

\* C4: pop_save_status(k) on a pending entry returns None and leaves the
\* entry of k and every other registry entry unchanged.
C4_PopPendingIsNoOp ==
    [][\A k \in Keys :
          (PopSaveStatus(k) /\ EntryPending(k)) =>
              /\ ret'.val = 0
              /\ saves' = saves
              /\ saveJobs' = saveJobs]_vars

\* The last call was a pop of a key whose entry is still pending, and the
\* other key holds an entry too.
C4_Witness ==
    /\ ret.op = "pop_save_status"
    /\ ret.val = 0
    /\ EntryPending(ret.key)
    /\ \E k \in Keys \ {ret.key} : saves[k] # 0

\* The accepted submission of k that no later accepted submission follows.
LastAccepted(k) ==
    LET js == {j \in SavesOfKey(k) : saveJobs[j].pc # "rejected"}
    IN IF js = {} THEN 0 ELSE CHOOSE j \in js : \A i \in js : i <= j

\* C5: when k is not resubmitted after an accepted submission and the caller
\* keeps polling, some pop_save_status(k) eventually returns the terminal
\* status of that submission.
C5_TerminalResultDelivered ==
    \A k \in Keys : <>[](LastAccepted(k) = 0 \/ LastAccepted(k) \in delivered)

----------------------------------------------------------------------------
(* Claims about generation buffers *)

\* C6: after a buffer has become done, its (is_done, error) pair never
\* changes again, whatever the submitted callable returns or raises.
C6_TerminalTransitionOnce ==
    [][\A j \in DOMAIN genJobs :
          genJobs[j].buf.done =>
              /\ genJobs'[j].buf.done
              /\ genJobs'[j].buf.error = genJobs[j].buf.error]_vars

\* C7: when the callable of a generation raises e, at the call or while the
\* stream is consumed, the buffer eventually has is_done and error = str(e),
\* and keeps them: from some moment on every buffer whose callable has raised
\* is done with the callable's error (raising is a step of the job, never of
\* the submit call, which has returned before the job starts).
C7_RaiseBecomesError ==
    <>[](\A j \in DOMAIN genJobs :
            genJobs[j].raised # None =>
                /\ genJobs[j].buf.done
                /\ genJobs[j].buf.error = genJobs[j].raised)

\* A stream raised after it had yielded chunks, and its job has finished.
C7_Witness ==
    \E j \in DOMAIN genJobs :
        /\ genJobs[j].kind = "stream"
        /\ genJobs[j].yielded # <<>>
        /\ genJobs[j].raised = Some("boom")
        /\ genJobs[j].pc = "finished"

\* C8: the buffer of a streaming generation always reads as the concatenation
\* of a prefix of the chunks yielded, and once the stream has ended without
\* raising it reads as all of them, with is_done and no error.
C8_StreamConcatenation ==
    \A j \in DOMAIN genJobs :
        genJobs[j].kind = "stream" =>
            /\ \E n \in 0..Len(genJobs[j].yielded) :
                 ReadAll(genJobs[j].buf) = Join(SubSeq(genJobs[j].yielded, 1, n))
            /\ (genJobs[j].pc = "finished" /\ genJobs[j].raised = None) =>
                 /\ ReadAll(genJobs[j].buf) = Join(genJobs[j].yielded)
                 /\ genJobs[j].buf.done
                 /\ genJobs[j].buf.error = None

\* The stream "Hel", "", "lo" has ended and the buffer reads "Hello".
C8_Witness ==
    \E j \in DOMAIN genJobs :
        /\ genJobs[j].kind = "stream"
        /\ genJobs[j].pc = "finished"
        /\ genJobs[j].raised = None
        /\ genJobs[j].yielded = StreamScript
        /\ ReadAll(genJobs[j].buf) = <<"H", "e", "l", "l", "o">>

\* C9: once a buffer is done, read_all() returns the same text in every
\* later state.
C9_ContentFrozenOnceDone ==
    [][\A j \in DOMAIN genJobs :
          genJobs[j].buf.done => ReadAll(genJobs'[j].buf) = ReadAll(genJobs[j].buf)]_vars

\* A buffer with content was done while its job still had a step to take,
\* and the job has taken it.
C9_Witness ==
    \E j \in DOMAIN genJobs :
        /\ genJobs[j].buf.done
        /\ ReadAll(genJobs[j].buf) # Empty
        /\ genJobs[j].pc = "finished"
        /\ \E i \in DOMAIN genJobs : i # j /\ genJobs[i].buf.done /\ genJobs[i].exc # None

\* C10: error set implies done; mark_error(x) leaves is_done true and
\* error = x, and a later mark_done does not clear the error.
C10_ErrorImpliesDone ==
    /\ [](buffer.error # None => buffer.done)
    /\ [][/\ \A x \in Errors :
               BufferMarkError(x) => (buffer'.done /\ buffer'.error = Some(x))
          /\ BufferMarkDone => buffer'.error = buffer.error]_vars

\* mark_done was called on a buffer that holds an error.
C10_Witness ==
    /\ ret.op = "mark_done"
    /\ buffer.error = Some("boom")
    /\ buffer.done

----------------------------------------------------------------------------
(* Claims about reading a buffer *)

\* C11: read_all() is the concatenation of the appended non-empty fragments
\* in append order; for every cursor c with 0 <= c <= len(read_all()),
\* read_all()[0:c] + read_since(c) = read_all(); a read returns that text and
\* leaves the buffer as it was, before and after done.
C11_ReadsReturnAppendedText ==
    /\ [](/\ ReadAll(buffer) = Join(appended)
          /\ \A c \in 0..Len(ReadAll(buffer)) :
                SubSeq(ReadAll(buffer), 1, c) \o ReadSince(buffer, c) = ReadAll(buffer))
    /\ [][/\ BufferReadAll => buffer' = buffer /\ read'.text = Join(appended)
          /\ \A c \in 0..Len(ReadAll(buffer)) :
                BufferReadSince(c) =>
                    /\ buffer' = buffer
                    /\ SubSeq(Join(appended), 1, c) \o read'.text = Join(appended)]_vars
C11_Witness ==
    /\ ret.op = "read_since"
    /\ buffer.done
    /\ Len(appended) >= 2
    /\ read.cursor = 2
    /\ read.text # Empty
    /\ read.text = ReadSince(buffer, 2)

----------------------------------------------------------------------------
(* Claims about history loads *)

HistOfKey(k) == {j \in DOMAIN histJobs : histJobs[j].key = k}
NeverPopped(k) == \A j \in HistOfKey(k) : histJobs[j].pops = 0

\* C13: when two history loads were submitted for the same key and nothing
\* was popped, then once both jobs have completed the list stored under the
\* key is the one of the later submission.
C13_LaterSubmissionWins ==
    \A k \in Keys : \A i, j \in HistOfKey(k) :
        (/\ i < j
         /\ j = Len(histJobs)
         /\ \A h \in HistOfKey(k) : histJobs[h].pc = "finished"
         /\ NeverPopped(k))
        => history[k] = j

\* C14: pop_history_result(key) returns the list stored under key and removes
\* it in one step, so a stored list is never one already handed out, no list
\* is handed out twice, and a pop that finds no entry returns None.
C14_HistoryConsumedOnce ==
    /\ [](/\ \A j \in DOMAIN histJobs : histJobs[j].pops <= 1
          /\ \A k \in Keys : history[k] # 0 => histJobs[history[k]].pops = 0)
    /\ [][\A k \in Keys :
            PopHistoryResult(k) => ret'.val = history[k] /\ history'[k] = 0]_vars
C14_Witness ==
    /\ ret.op = "pop_history_result"
    /\ ret.val = 0
    /\ history[ret.key] = 0
    /\ \E j \in HistOfKey(ret.key) : histJobs[j].pops = 1 /\ histJobs[j].result # <<>>

\* C15: when load_fn raises, _run catches it and stores the empty list: a
\* job that raised ends with result [], it is the entry of its key when it
\* is the key's only load and nothing was popped, and the pop that takes it
\* returns that [] (not None) and removes the entry.
C15_RaiseStoresEmptyList ==
    /\ [](\A j \in DOMAIN histJobs :
            (histJobs[j].raised /\ histJobs[j].pc = "finished") =>
                /\ histJobs[j].result = <<>>
                /\ (HistOfKey(histJobs[j].key) = {j} /\ histJobs[j].pops = 0)
                       => history[histJobs[j].key] = j)
    /\ [][\A k \in Keys :
            (PopHistoryResult(k) /\ history[k] # 0 /\ histJobs[history[k]].raised) =>
                /\ ret'.val # 0
                /\ histJobs'[ret'.val].result = <<>>
                /\ history'[k] = 0]_vars
C15_Witness ==
    /\ ret.op = "pop_history_result"
    /\ ret.val = 0
    /\ history[ret.key] = 0
    /\ \E j \in DOMAIN histJobs :
          /\ HistOfKey(ret.key) = {j}
          /\ histJobs[j].raised
          /\ histJobs[j].pops = 1

----------------------------------------------------------------------------
(* Claims about the status object of a save *)

\* C19: while an accepted save job for k is running, the entry under k is
\* that job's own status: no other submission's job has put its status there.
C19_RunningJobOwnsEntry ==
    \A j \in DOMAIN saveJobs :
        saveJobs[j].pc = "running" => saves[saveJobs[j].key] = j

\* C20: a SaveStatus never has ok = TRUE together with an error, and once it
\* is terminal (ok, or error set) neither field changes again.
C20_StatusTerminalOnce ==
    /\ [](\A j \in DOMAIN saveJobs : ~(saveJobs[j].ok /\ saveJobs[j].error # None))
    /\ [][\A j \in DOMAIN saveJobs :
            IsTerminal(saveJobs[j]) =>
                /\ saveJobs'[j].ok = saveJobs[j].ok
                /\ saveJobs'[j].error = saveJobs[j].error]_vars
C20_Witness ==
    /\ \E j \in DOMAIN saveJobs :
          saveJobs[j].pc = "finished" /\ saveJobs[j].error = Some("boom")
    /\ \E j \in DOMAIN saveJobs : saveJobs[j].pc = "finished" /\ saveJobs[j].ok

----------------------------------------------------------------------------
(* Claims about the registries *)

registries == <<generations, saves, history>>

\* C16: a submit registers its tracking object and queues the job in one
\* call: right after submit_generation/submit_streaming_generation(k) the
\* entry under k is the new buffer, right after an accepted submit_save(k)
\* there is an entry under k, the new job has not run yet, and as long as no
\* other call is made this stays so whatever steps the pool takes.
C16_RegisteredOnReturn ==
    /\ [](/\ ret.op \in {"submit_generation", "submit_streaming_generation"} =>
                /\ generations[ret.key] = Len(genJobs)
                /\ genJobs[Len(genJobs)].key = ret.key
          /\ (ret.op = "submit_save" /\ saveJobs[Len(saveJobs)].pc # "rejected") =>
                saves[ret.key] # 0)
    /\ [][\A k \in Keys :
            /\ (SubmitGeneration(k, FALSE) \/ SubmitStreamingGeneration(k)) =>
                  /\ generations'[k] = Len(genJobs')
                  /\ genJobs'[Len(genJobs')].pc = "queued"
                  /\ genJobs'[Len(genJobs')].buf = NewBuffer
            /\ (SubmitSave(k) /\ ~IsDuplicateSave(k)) =>
                  /\ saves'[k] = Len(saveJobs')
                  /\ saveJobs'[Len(saveJobs')].pc = "queued"]_vars
C16_Witness ==
    /\ ret.op = "submit_save"
    /\ saveJobs[Len(saveJobs)].pc = "finished"
    /\ saves[ret.key] = Len(saveJobs)
    /\ Len(genJobs) = 1
    /\ genJobs[1].kind = "stream"
    /\ genJobs[1].pc = "iter"
    /\ generations[genJobs[1].key] = 1

\* C17: clear_finished_generation(k) removes the entry under k when its
\* buffer is done, leaves the registry as it is when k has no entry or the
\* buffer is not done, and never touches another key, a buffer or the other
\* two maps.
C17_ClearOnlyWhenDone ==
    [][\A k \in Keys :
        ClearFinishedGeneration(k) =>
            /\ (generations[k] # 0 /\ genJobs[generations[k]].buf.done)
                    => generations'[k] = 0
            /\ (generations[k] = 0 \/ ~genJobs[generations[k]].buf.done)
                    => generations' = generations
            /\ \A other \in Keys \ {k} : generations'[other] = generations[other]
            /\ genJobs' = genJobs /\ saves' = saves /\ history' = history]_vars
C17_Witness ==
    /\ ret.op = "clear_finished_generation"
    /\ generations[ret.key] = 0
    /\ \E j \in DOMAIN genJobs : genJobs[j].key = ret.key /\ genJobs[j].buf.done
    /\ \E other \in Keys \ {ret.key} :
          generations[other] # 0 /\ ~genJobs[generations[other]].buf.done

\* C18: for a key with no entry (never submitted, or removed again),
\* get_generation_buffer, get_save_status, pop_save_status and
\* pop_history_result return None and leave all three maps as they are.
C18_AbsentKeyLookups ==
    [][\A k \in Keys :
        /\ (generations[k] = 0 /\ GetGenerationBuffer(k))
              => ret'.val = 0 /\ registries' = registries
        /\ (saves[k] = 0 /\ GetSaveStatus(k))
              => ret'.val = 0 /\ registries' = registries
        /\ (saves[k] = 0 /\ PopSaveStatus(k))
              => ret'.val = 0 /\ registries' = registries
        /\ (history[k] = 0 /\ PopHistoryResult(k))
              => ret'.val = 0 /\ registries' = registries]_vars
C18_Witness ==
    /\ ret.op = "pop_history_result"
    /\ ret.val = 0
    /\ history[ret.key] = 0
    /\ \E j \in HistOfKey(ret.key) : histJobs[j].pops = 1
    /\ \E k \in Keys : saves[k] # 0

----------------------------------------------------------------------------
(* Claims about concurrent generations *)

DistinctKeys == \A i, j \in DOMAIN genJobs : i # j => genJobs[i].key # genJobs[j].key

\* The text the callable of job j produced: the returned text, or for a
\* stream the concatenation of the chunks it yielded.
Produced(j) ==
    IF genJobs[j].kind = "stream" THEN Join(genJobs[j].yielded)
    ELSE genJobs[j].result[1]

\* C12: generations submitted under pairwise distinct keys each end with
\* is_done and a buffer that reads exactly as the text their own callable
\* produced, in every order of submission and of the jobs' steps.
C12_OwnTextWhenDone ==
    DistinctKeys =>
        \A j \in DOMAIN genJobs :
            (/\ genJobs[j].pc = "finished"
             /\ genJobs[j].raised = None
             /\ genJobs[j].kind # "stream" => genJobs[j].result # None)
            => /\ genJobs[j].buf.done
               /\ ReadAll(genJobs[j].buf) = Produced(j)

----------------------------------------------------------------------------
(* Claims about resubmitting a save *)

EntryFailed(k) == saves[k] # 0 /\ ~SaveOf(k).ok /\ SaveOf(k).error # None

\* C21: a submit_save(k) made while the entry under k is failed, or while
\* there is no entry (never submitted, or popped), is accepted: the entry
\* under k becomes a fresh pending status and its job is queued, once.
C21_FailedOrPoppedResubmits ==
    [][\A k \in Keys :
        (SubmitSave(k) /\ (saves[k] = 0 \/ EntryFailed(k))) =>
            /\ saves'[k] = Len(saveJobs) + 1
            /\ saveJobs' = Append(saveJobs, SaveStatus(k, "queued"))]_vars
C21_Witness ==
    /\ ret.op = "submit_save"
    /\ Len(saveJobs) = 3
    /\ saveJobs[1].key = ret.key /\ saveJobs[1].pc = "finished" /\ saveJobs[1].error # None
    /\ saveJobs[2].key = ret.key /\ saveJobs[2].pc = "finished" /\ saveJobs[2].ok
    /\ consumed[ret.key] = FALSE
    /\ saveJobs[3].key = ret.key /\ saveJobs[3].pc = "queued"
    /\ saves[ret.key] = 3

----------------------------------------------------------------------------
(* Claims about the lifetime of a registered buffer *)

SubmitsGeneration(k) ==
    \/ \E simulate_stream \in BOOLEAN : SubmitGeneration(k, simulate_stream)
    \/ SubmitStreamingGeneration(k)

\* C22 as stated: a buffer registered under k stays the entry under k in
\* every step that is not a clear_finished_generation(k).
C22_OnlyClearChangesEntry ==
    [][\A k \in Keys :
        (generations[k] # 0 /\ ~ClearFinishedGeneration(k))
            => generations'[k] = generations[k]]_vars

\* C22, amended: a buffer registered under k stays the entry under k in every
\* step that is neither a clear_finished_generation(k) nor a new generation
\* submit for k; job steps, lookups, pops and calls for other keys leave it.
C22_EntryKeptUntilClearOrResubmit ==
    [][\A k \in Keys :
        (generations[k] # 0 /\ ~ClearFinishedGeneration(k) /\ ~SubmitsGeneration(k))
            => generations'[k] = generations[k]]_vars
C22_Witness ==
    \E k \in Keys :
        /\ generations[k] # 0
        /\ genJobs[generations[k]].pc = "finished"
        /\ ret.op = "clear_finished_generation"
        /\ ret.key # k
        /\ \E j \in DOMAIN saveJobs : saveJobs[j].key = k /\ saveJobs[j].pc = "finished"

----------------------------------------------------------------------------
(* Claims about submit_generation *)

\* C23: with simulate_stream = False the buffer reads as the empty text or
\* as the whole returned text, never as a part of it, and once it is done
\* without error it reads as the whole returned text (the empty text when
\* the callable returned no text at all).
C23_AllOrNothing ==
    \A j \in DOMAIN genJobs :
        genJobs[j].kind = "gen" =>
            /\ \/ ReadAll(genJobs[j].buf) = Empty
               \/ genJobs[j].result # None /\ ReadAll(genJobs[j].buf) = genJobs[j].result[1]
            /\ (genJobs[j].buf.done /\ genJobs[j].buf.error = None) =>
                  ReadAll(genJobs[j].buf) =
                      IF genJobs[j].result = None THEN Empty ELSE genJobs[j].result[1]
C23_Witness ==
    \E j \in DOMAIN genJobs :
        /\ genJobs[j].kind = "gen"
        /\ genJobs[j].pc = "finished"
        /\ genJobs[j].buf.done /\ genJobs[j].buf.error = None
        /\ ReadAll(genJobs[j].buf) = <<"a", " ", "b">>

\* C24: with simulate_stream = True, once the job has completed with is_done
\* and no error the buffer reads as the text the callable returned.
C24_SimulatedStreamReadsAsText ==
    \A j \in DOMAIN genJobs :
        (/\ genJobs[j].kind = "sim"
         /\ genJobs[j].pc = "finished"
         /\ genJobs[j].buf.done
         /\ genJobs[j].buf.error = None)
        => ReadAll(genJobs[j].buf) = genJobs[j].result[1]

----------------------------------------------------------------------------
(* Claims about the pool *)

Hung == {j \in DOMAIN histJobs : histJobs[j].pc = "hung"}

\* C25: never more than MaxWorkers jobs are inside _run at once, and when at
\* most MaxWorkers - 1 callables never return, from some moment on every
\* submitted job whose callable does return has stored its result.
C25_HungJobsStallOnlyTheirWorker ==
    /\ [](Cardinality(RunningHist) <= MaxWorkers)
    /\ <>[](Cardinality(Hung) <= MaxWorkers - 1 =>
              \A j \in DOMAIN histJobs : histJobs[j].pc \in {"finished", "hung"})
C25_Witness ==
    /\ Cardinality(Hung) = MaxWorkers - 1
    /\ Len(histJobs) = MaxWorkers + 1
    /\ \A j \in DOMAIN histJobs : histJobs[j].pc \in {"finished", "hung"}
    /\ histJobs[MaxWorkers + 1].pc = "finished"

----------------------------------------------------------------------------
(* Claims about the tick *)

MsgBuffer == genJobs[generations[MsgId]].buf

\* C26: over the ticks submit_save is called at most once for the assistant
\* message, and only with a done buffer and a message that has content and
\* is neither failed, saved nor saving; the message is saved only when that
\* save succeeded, and it is saved once the tick has popped the success.
C26_TickSavesOnce ==
    /\ [](/\ Cardinality(SavesOfKey(MsgId)) <= 1
          /\ assistant_message.saved =>
                \E j \in SavesOfKey(MsgId) : saveJobs[j].ok /\ j \in delivered
          /\ (tickpc = "idle" /\ \E j \in delivered : saveJobs[j].ok)
                => assistant_message.saved)
    /\ [][(TickGenerations /\ saveJobs' # saveJobs) =>
            /\ generations[MsgId] # 0
            /\ MsgBuffer.done
            /\ ~Truthy(assistant_message.error)
            /\ ~assistant_message.saved
            /\ ~assistant_message.saving
            /\ assistant_message'.content # Empty]_vars
C26_Witness ==
    /\ assistant_message.saved
    /\ ~assistant_message.saving
    /\ tickpc = "saves"
    /\ ret.op = "get_generation_buffer"
    /\ saves[MsgId] # 0

\* C27: the tick never submits a save for a message whose generation
\* failed: a buffer with an error has no save submitted for its message.
C27_NoSaveAfterFailedGeneration ==
    (generations[MsgId] # 0 /\ MsgBuffer.error # None) => SavesOfKey(MsgId) = {}

----------------------------------------------------------------------------
(* Claims about trimming the context *)

Suffixes(messages) == {Suffix(messages, i) : i \in 1..(Len(messages) + 1)}

\* the estimated total the trim call compares with max_tokens
TrimTotal(messages) == CountTotalTokens(trim.system_prompt, messages)

\* C28: both trim functions return a suffix of the input, in the input's
\* order, that fits max_tokens (system prompt included where given) while no
\* longer suffix fits; the input itself when it already fits, and the empty
\* list when the last message alone does not fit.
C28_TrimReturnsLongestFittingSuffix ==
    trim.op \in {"trim_messages_to_fit", "trim_message_dicts_to_fit"} =>
        /\ trim.result \in Suffixes(trim.messages)
        /\ trim.result # <<>> => TrimTotal(trim.result) <= trim.max_tokens
        /\ \A s \in Suffixes(trim.messages) :
               Len(s) > Len(trim.result) => TrimTotal(s) > trim.max_tokens
        /\ TrimTotal(trim.messages) <= trim.max_tokens => trim.result = trim.messages
        /\ (/\ trim.messages # <<>>
            /\ TrimTotal(Suffix(trim.messages, Len(trim.messages))) > trim.max_tokens)
           => trim.result = <<>>

C28_Witness ==
    /\ trim.op = "trim_messages_to_fit"
    /\ trim.system_prompt # Empty
    /\ Len(trim.result) = 2
    /\ Len(trim.messages) = 3
    /\ TrimTotal(trim.result) = trim.max_tokens


----------------------------------------------------------------------------
(* Claims about the writer of a buffer *)

\* C29: a StreamingBuffer is written only by the job of the submission that
\* created it: a step that changes the content, done flag or error of buffer
\* i is a step of the running job i and changes no other job, no other
\* buffer and no registration, so an earlier job of a resubmitted key never
\* changes the buffer now registered under the key.
C29_OneWriterPerBuffer ==
    [][\A i \in DOMAIN genJobs :
          genJobs'[i].buf # genJobs[i].buf =>
              /\ genJobs[i].pc \notin {"queued", "finished"}
              /\ \A other \in DOMAIN genJobs \ {i} : genJobs'[other] = genJobs[other]
              /\ generations' = generations
              /\ LET registered == generations[genJobs[i].key] IN
                 registered # i =>
                     genJobs'[registered].buf = genJobs[registered].buf]_vars

C29_Witness ==
    /\ Len(genJobs) = 2
    /\ genJobs[1].key = genJobs[2].key
    /\ generations[genJobs[1].key] = 2
    /\ genJobs[1].pc = "iter"
    /\ genJobs[1].buf.chunks = <<StreamScript[1]>>
    /\ ~genJobs[1].buf.done
    /\ genJobs[2].buf.done
    /\ genJobs[2].buf.error = None
    /\ Len(genJobs[2].buf.chunks) = 2


----------------------------------------------------------------------------
(* Claims about the locks *)

WaitsForLock(t) == NextStep(t) \in {"acquire_registry", "acquire_buffer"}

\* C30: the locks cannot deadlock: a thread that holds a buffer lock never
\* asks for the registry lock (the only nesting is registry, then buffer),
\* no lock is held while a submitted callable runs, each lock has at most
\* the one holder, and every thread that asks for a lock gets it.
C30_NoDeadlockOnLocks ==
    /\ [](\A t \in Threads :
            /\ buffer_lock = t => NextStep(t) # "acquire_registry"
            /\ NextStep(t) = "callable" => registry_lock # t /\ buffer_lock # t
            /\ NextStep(t) = "release_registry" => registry_lock = t
            /\ NextStep(t) = "release_buffer" => buffer_lock = t)
    /\ \A t \in Threads : WaitsForLock(t) ~> ~WaitsForLock(t)

C30_Witness ==
    /\ \E t \in UiThreads :
          registry_lock = t /\ buffer_lock = t /\ NextStep(t) = "release_buffer"
    /\ \E t \in UiThreads : NextStep(t) = "acquire_registry"
    /\ \E t \in Workers : NextStep(t) = "acquire_buffer" /\ Len(thread[t].steps) = 5
    /\ \E t \in Workers : NextStep(t) = "callable" /\ Len(thread[t].steps) = 3


=============================================================================
